---------------------------- MODULE Spec2Model ----------------------------
(***************************************************************************)
(* Password generator of script.js: the secure sampler (getRandomInt), the *)
(* character-set builder (buildCharacterSets), the constrained assembler   *)
(* (ensureCharacterTypeInclusion, fillPassword, the Fisher-Yates shuffle)  *)
(* and the batch loop of the generateBtn click handler.                    *)
(*                                                                         *)
(* A character is its code point; a string is a sequence of code points.   *)
(* One action is the code between two calls of getRandomInt: the draw is   *)
(* the only nondeterminism of the handler.                                 *)
(***************************************************************************)
EXTENDS Integers, Sequences, FiniteSets, Bags

VARIABLES
    pc,                 \* "idle" | "seed" | "fill" | "shuffle": where the click handler stands
    clicks,             \* number of clicks on generateBtn so far
    options,            \* the options record read at script.js:198-206
    length,             \* parseInt(lengthSlider.value), script.js:197
    characterSets,      \* script.js:216
    allCharsArray,      \* script.js:219
    passwords,          \* the texts displayed in the #passwords container, as a bag
    generatedPasswords, \* script.js:229
    attempts,           \* script.js:230
    passwordArray,      \* script.js:235
    usedChars,          \* script.js:236
    setIndex,           \* position of characterSets.forEach, script.js:143
    availableChars,     \* script.js:242-246
    i,                  \* the shuffle's loop variable, script.js:251
    errorMessage,       \* text of #error-message ("" when hidden)
    entropy,            \* script.js:263, in hundredths of a bit
    strengthInfo,       \* script.js:264, its label
    indicators,         \* the strength indicator displayed with each password text
    sampled,            \* whether getRandomInt was called since the last click
    spc,                \* getRandomInt alone: "draw" | "redraw" | "return" | "returned"
    max,                \* getRandomInt's argument
    randomValue         \* getRandomInt's randomValue

vars == <<pc, clicks, options, length, characterSets, allCharsArray, passwords,
          generatedPasswords, attempts, passwordArray, usedChars, setIndex,
          availableChars, i, errorMessage, entropy, strengthInfo, indicators,
          sampled, spc, max, randomValue>>

handlerVars == <<pc, clicks, options, length, characterSets, allCharsArray, passwords,
                 generatedPasswords, attempts, passwordArray, usedChars, setIndex,
                 availableChars, i, errorMessage, entropy, strengthInfo, indicators,
                 sampled>>

samplerVars == <<spc, max, randomValue>>

-----------------------------------------------------------------------------
(* Bounds of the exploration *)

\* width in bits of the words drawn from crypto.getRandomValues (32 in the code)
WordBits == 7
\* requests that pass the prechecks are explored up to this length
MaxLen == 2
\* ... and up to this number of selected character classes
MaxClasses == 2
\* ... and, over the digits alone, up to this length
MaxDigitsLen == 3
\* attempts of the batch loop followed by Spec and SpecFill
AttemptCap == 1
\* length of the requests explored by SpecFill
FillLen == 7
\* clicks followed in a session of several requests
MaxClicks == 2

(* Program constants *)

\* the largest length of getStrengthFeedback's ranges (the slider's maximum)
maxLength == 60
\* generatedPasswords.size < 5
count == 5
\* attempts < 1000
maxAttempts == 1000

-----------------------------------------------------------------------------
(* Helpers on sequences *)

Range(s) == {s[k] : k \in DOMAIN s}

\* Array.prototype.join('') over an array of strings, then split('')
RECURSIVE Join(_)
Join(sets) == IF sets = <<>> THEN <<>> ELSE Head(sets) \o Join(Tail(sets))

Abs(x) == IF x < 0 THEN -x ELSE x

\* [a[p], a[q]] = [a[q], a[p]] on a 1-based sequence
Swap(a, p, q) == [a EXCEPT ![p] = a[q], ![q] = a[p]]

-----------------------------------------------------------------------------
(* getRandomInt, script.js:36-46 *)

maxUint32 == 2^WordBits - 1

\* limit without the remainder taken off: nothing but maxUint32 is redrawn
limit_NoRemainder(m) == maxUint32

\* JavaScript's NaN; every other number of the sampler is a natural
NaN == -1

\* JavaScript's a % b on naturals: NaN when b is 0
Rem(a, b) == IF b = 0 THEN NaN ELSE a % b

\* JavaScript's a >= b: false as soon as one side is NaN
GreaterOrEqual(a, b) == a # NaN /\ b # NaN /\ a >= b

limit(m) == IF Rem(maxUint32, m) = NaN THEN NaN ELSE maxUint32 - Rem(maxUint32, m)

\* the do-while's exit test, negated: the draw is kept iff it is below limit
Accepted(raw, lim) == ~GreaterOrEqual(raw, lim)

\* the values getRandomInt(m) can return
getRandomInt(m) ==
    LET lim == limit(m)
    IN  {Rem(raw, m) : raw \in {v \in 0..maxUint32 : Accepted(v, lim)}}

-----------------------------------------------------------------------------
(* buildCharacterSets, script.js:110-132 *)

numbers == [k \in 1..10 |-> 47 + k]                  \* '0123456789'
lowercase == [k \in 1..26 |-> 96 + k]                \* 'a'..'z'
uppercase == [k \in 1..26 |-> 64 + k]                \* 'A'..'Z'
\* '!@#$%^&*()-_=+[]{}|;:",.<>/?~'
symbols == <<33, 64, 35, 36, 37, 94, 38, 42, 40, 41, 45, 95, 61, 43, 91, 93,
             123, 125, 124, 59, 58, 34, 44, 46, 60, 62, 47, 63, 126>>

\* /[il1Lo0O]/g
similarChars == {105, 108, 49, 76, 111, 48, 79}

\* the removal with the capitals forgotten: /[il1o0]/g
RemoveSimilar_NoCapitals(set) == SelectSeq(set, LAMBDA c : c \notin {105, 108, 49, 111, 48})

RemoveSimilar(set) == SelectSeq(set, LAMBDA c : c \notin similarChars)

\* the builder with the two letter classes pushed in the other order
buildCharacterSets_UppercaseFirst(o) ==
    LET pushed == (IF o.includeNumbers THEN <<numbers>> ELSE <<>>)
                  \o (IF o.includeUppercase THEN <<uppercase>> ELSE <<>>)
                  \o (IF o.includeLowercase THEN <<lowercase>> ELSE <<>>)
                  \o (IF o.includeSymbols THEN <<symbols>> ELSE <<>>)
    IN  IF o.noSimilar
        THEN [k \in DOMAIN pushed |-> RemoveSimilar(pushed[k])]
        ELSE pushed

buildCharacterSets(o) ==
    LET pushed == (IF o.includeNumbers THEN <<numbers>> ELSE <<>>)
                  \o (IF o.includeLowercase THEN <<lowercase>> ELSE <<>>)
                  \o (IF o.includeUppercase THEN <<uppercase>> ELSE <<>>)
                  \o (IF o.includeSymbols THEN <<symbols>> ELSE <<>>)
    IN  IF o.noSimilar
        THEN [k \in DOMAIN pushed |-> RemoveSimilar(pushed[k])]
        ELSE pushed

-----------------------------------------------------------------------------
(* calculateEntropy and getPasswordStrength, script.js:54-71. An entropy is
   the string toFixed(2) makes, kept as its number of hundredths: "37.60" is
   3760, and `entropy < 50` is `entropy < 5000`. *)

\* Math.log2 of the sizes an alphabet can have, as <<size, a, b>> with
\* log2(size) = (a * 10^5 + b) / 10^9 to the nearest 10^-9
log2Table ==
    {<<8, 30000, 0>>, <<10, 33219, 28095>>, <<23, 45235, 61956>>, <<24, 45849, 62501>>,
     <<26, 47004, 39718>>, <<29, 48579, 80995>>, <<31, 49541, 96310>>, <<32, 50000, 0>>,
     <<36, 51699, 25001>>, <<37, 52094, 53366>>, <<39, 52854, 2219>>, <<47, 55545, 88852>>,
     <<52, 57004, 39718>>, <<53, 57279, 20455>>, <<55, 57813, 59714>>, <<60, 59068, 90596>>,
     <<61, 59307, 37338>>, <<62, 59541, 96310>>, <<65, 60223, 67813>>, <<76, 62479, 27513>>,
     <<81, 63398, 50003>>, <<84, 63923, 17423>>, <<91, 65077, 94640>>}

log2(n) == CHOOSE e \in log2Table : e[1] = n

\* (passwordLength * Math.log2(characterSetSize)).toFixed(2): the product
\* rounded to the nearest hundredth
calculateEntropy(passwordLength, characterSetSize) ==
    LET e == log2(characterSetSize)
    IN  (passwordLength * e[2] + (passwordLength * e[3]) \div 100000 + 50) \div 100

\* the cascade with <= in the place of <
getPasswordStrength_Inclusive(e) ==
    IF e <= 5000 THEN "Weak"
    ELSE IF e <= 7000 THEN "Fair"
    ELSE IF e <= 9000 THEN "Good"
    ELSE IF e <= 11000 THEN "Strong"
    ELSE IF e <= 13000 THEN "Very Strong"
    ELSE IF e <= 15000 THEN "Extremely Strong"
    ELSE "Unbreakable"

getPasswordStrength(e) ==
    IF e < 5000 THEN "Weak"
    ELSE IF e < 7000 THEN "Fair"
    ELSE IF e < 9000 THEN "Good"
    ELSE IF e < 11000 THEN "Strong"
    ELSE IF e < 13000 THEN "Very Strong"
    ELSE IF e < 15000 THEN "Extremely Strong"
    ELSE "Unbreakable"

-----------------------------------------------------------------------------
(* Messages of displayError *)

ErrNoTypes == "No character types selected"                      \* script.js:210
ErrLength == "Cannot generate a password without duplicates"     \* script.js:222
ErrInclude == "Cannot include at least one character from each selected type"  \* script.js:152
ErrRanOut == "Ran out of characters to use"                      \* script.js:173
ErrNotEnough == "Could not generate enough unique passwords"     \* script.js:305

-----------------------------------------------------------------------------
(* The click handler's state as one record, and its steps as functions of it *)

Cur == [pc |-> pc, clicks |-> clicks, options |-> options, length |-> length,
        characterSets |-> characterSets, allCharsArray |-> allCharsArray,
        passwords |-> passwords, generatedPasswords |-> generatedPasswords,
        attempts |-> attempts, passwordArray |-> passwordArray,
        usedChars |-> usedChars, setIndex |-> setIndex,
        availableChars |-> availableChars, i |-> i,
        errorMessage |-> errorMessage, entropy |-> entropy,
        strengthInfo |-> strengthInfo, indicators |-> indicators,
        sampled |-> sampled]

Install(s) ==
    /\ pc' = s.pc
    /\ clicks' = s.clicks
    /\ options' = s.options
    /\ length' = s.length
    /\ characterSets' = s.characterSets
    /\ allCharsArray' = s.allCharsArray
    /\ passwords' = s.passwords
    /\ generatedPasswords' = s.generatedPasswords
    /\ attempts' = s.attempts
    /\ passwordArray' = s.passwordArray
    /\ usedChars' = s.usedChars
    /\ setIndex' = s.setIndex
    /\ availableChars' = s.availableChars
    /\ i' = s.i
    /\ errorMessage' = s.errorMessage
    /\ entropy' = s.entropy
    /\ strengthInfo' = s.strengthInfo
    /\ indicators' = s.indicators
    /\ sampled' = s.sampled

\* catch (error) { displayError(error.message); }: the handler ends
Throw(s, message) == [s EXCEPT !.errorMessage = message, !.pc = "idle"]

\* BatchLoop reporting the shortfall only when nothing at all was generated
BatchLoop_OnlyWhenEmpty(s) ==
    IF Cardinality(s.generatedPasswords) < count /\ s.attempts < maxAttempts
    THEN [s EXCEPT !.attempts = @ + 1, !.passwordArray = <<>>, !.usedChars = {},
                   !.setIndex = 1, !.pc = "seed"]
    ELSE IF Cardinality(s.generatedPasswords) = 0
         THEN [s EXCEPT !.errorMessage = ErrNotEnough, !.pc = "idle"]
         ELSE [s EXCEPT !.pc = "idle"]

\* the while test of the batch loop and what follows it: the next attempt's
\* first lines, or the lines after the loop
BatchLoop(s) ==
    IF Cardinality(s.generatedPasswords) < count /\ s.attempts < maxAttempts
    THEN [s EXCEPT !.attempts = @ + 1, !.passwordArray = <<>>, !.usedChars = {},
                   !.setIndex = 1, !.pc = "seed"]
    ELSE IF Cardinality(s.generatedPasswords) < count
         THEN [s EXCEPT !.errorMessage = ErrNotEnough, !.pc = "idle"]
         ELSE [s EXCEPT !.pc = "idle"]

\* #passwords without a child
NoIndicators == [p \in {} |-> [label |-> "", entropy |-> 0]]

\* the container left as it is
ClearPasswords_Keep(s) == s

\* passwordsContainer.innerHTML = ''
ClearPasswords(s) == [s EXCEPT !.passwords = EmptyBag, !.indicators = NoIndicators]

\* the entropy, the strength and the new child of #passwords
DisplayPassword(s, password) ==
    LET e == calculateEntropy(s.length, Len(s.allCharsArray))
        info == getPasswordStrength(e)
        indicator == [label |-> info, entropy |-> e]
    IN  [s EXCEPT !.entropy = e,
                  !.strengthInfo = info,
                  !.passwords = @ (+) SetToBag({password}),
                  !.indicators = [p \in DOMAIN s.indicators \cup {password} |->
                                     IF p = password THEN indicator ELSE s.indicators[p]]]

\* AcceptPassword without the membership test: every candidate is displayed
AcceptPassword_NoMembershipTest(s) ==
    BatchLoop(DisplayPassword([s EXCEPT !.generatedPasswords = @ \cup {s.passwordArray}],
                              s.passwordArray))

\* password = passwordArray.join(''), the membership test, the new child of #passwords
AcceptPassword(s) ==
    LET password == s.passwordArray
    IN  IF password \notin s.generatedPasswords
        THEN BatchLoop(DisplayPassword([s EXCEPT !.generatedPasswords = @ \cup {password}],
                                       password))
        ELSE BatchLoop(s)

\* the loop's entry with i >= 0 as its test
EnterShuffle_DownToZero(s) ==
    IF Len(s.passwordArray) - 1 >= 0
    THEN [s EXCEPT !.i = Len(s.passwordArray) - 1, !.pc = "shuffle"]
    ELSE AcceptPassword([s EXCEPT !.i = Len(s.passwordArray) - 1])

\* for (let i = passwordArray.length - 1; i > 0; i--): the loop's entry
EnterShuffle(s) ==
    IF Len(s.passwordArray) - 1 > 0
    THEN [s EXCEPT !.i = Len(s.passwordArray) - 1, !.pc = "shuffle"]
    ELSE AcceptPassword([s EXCEPT !.i = Len(s.passwordArray) - 1])

\* the draws of a shuffle that takes j anywhere in the array
ShuffleDraws_WholeArray(s) == getRandomInt(Len(s.passwordArray))

\* const j = getRandomInt(i + 1)
ShuffleDraws(s) == getRandomInt(s.i + 1)

\* one iteration of the shuffle with the drawn index j (0-based, as i)
ShuffleStep(s, j) ==
    LET swapped == [s EXCEPT !.passwordArray = Swap(@, s.i + 1, j + 1),
                             !.i = @ - 1, !.sampled = TRUE]
    IN  IF swapped.i > 0 THEN swapped ELSE AcceptPassword(swapped)

\* FillLoop going round once too often: passwordArray.length <= length
FillLoop_OneTooMany(s) ==
    IF Len(s.passwordArray) <= s.length
    THEN IF Len(s.availableChars) = 0
         THEN Throw(s, ErrRanOut)
         ELSE [s EXCEPT !.pc = "fill"]
    ELSE EnterShuffle(s)

\* fillPassword's while test and its first statement
FillLoop(s) ==
    IF Len(s.passwordArray) < s.length
    THEN IF Len(s.availableChars) = 0
         THEN Throw(s, ErrRanOut)
         ELSE [s EXCEPT !.pc = "fill"]
    ELSE EnterShuffle(s)

\* Fits without the test on usedChars
Fits_NoDuplicateTest(s, char) ==
    ~(/\ s.options.noSequential
      /\ Len(s.passwordArray) > 0
      /\ Abs(char - s.passwordArray[Len(s.passwordArray)]) = 1)

\* whether fillPassword's two tests let the drawn char through
Fits(s, char) ==
    /\ ~(s.options.noDuplicate /\ char \in s.usedChars)
    /\ ~(/\ s.options.noSequential
         /\ Len(s.passwordArray) > 0
         /\ Abs(char - s.passwordArray[Len(s.passwordArray)]) = 1)

\* one iteration of fillPassword's loop with the drawn char
FillStep(s, char) ==
    IF Fits(s, char)
    THEN FillLoop([s EXCEPT !.passwordArray = Append(@, char),
                            !.usedChars = @ \cup {char}, !.sampled = TRUE])
    ELSE FillLoop([s EXCEPT !.sampled = TRUE])

\* AvailableSetArray with the filter's test turned round: the used characters stay
AvailableSetArray_OnlyUsed(s) ==
    LET setArray == s.characterSets[s.setIndex]
    IN  IF s.options.noDuplicate
        THEN SelectSeq(setArray, LAMBDA c : c \in s.usedChars)
        ELSE setArray

\* AvailableSetArray drawing the class's character from the whole alphabet
AvailableSetArray_WholeAlphabet(s) ==
    IF s.options.noDuplicate
    THEN SelectSeq(s.allCharsArray, LAMBDA c : c \notin s.usedChars)
    ELSE s.allCharsArray

\* availableSetArray of the class the forEach is at
AvailableSetArray(s) ==
    LET setArray == s.characterSets[s.setIndex]
    IN  IF s.options.noDuplicate
        THEN SelectSeq(setArray, LAMBDA c : c \notin s.usedChars)
        ELSE setArray

\* availableChars: allCharsArray.slice(), filtered under noDuplicate
AvailableChars(s) ==
    IF s.options.noDuplicate
    THEN SelectSeq(s.allCharsArray, LAMBDA c : c \notin s.usedChars)
    ELSE s.allCharsArray

\* one iteration of ensureCharacterTypeInclusion's forEach with the drawn char;
\* after the last class, the lines up to fillPassword's first draw
SeedStep(s, char) ==
    LET pushed == [s EXCEPT !.passwordArray = Append(@, char),
                            !.usedChars = @ \cup {char}, !.sampled = TRUE]
    IN  IF s.setIndex < Len(s.characterSets)
        THEN [pushed EXCEPT !.setIndex = @ + 1]
        ELSE FillLoop([pushed EXCEPT !.availableChars = AvailableChars(pushed)])

NoTypeSelected(o) ==
    ~o.includeNumbers /\ ~o.includeLowercase /\ ~o.includeUppercase /\ ~o.includeSymbols

\* ExceedsAlphabet measuring the alphabet before the similar characters are removed
ExceedsAlphabet_BeforeRemoval(o, len, allChars) ==
    o.noDuplicate /\ len > Len(Join(buildCharacterSets([o EXCEPT !.noSimilar = FALSE])))

\* options.noDuplicate && length > allCharsArray.length
ExceedsAlphabet(o, len, allChars) == o.noDuplicate /\ len > Len(allChars)

\* the handler from the click to its first draw (or to its return)
ClickStep(s, o, len) ==
    LET read == [s EXCEPT !.errorMessage = "", !.options = o, !.length = len,
                          !.clicks = @ + 1, !.sampled = FALSE]
        sets == buildCharacterSets(o)
        built == [read EXCEPT !.characterSets = sets, !.allCharsArray = Join(sets)]
    IN  IF NoTypeSelected(o)
        THEN [read EXCEPT !.errorMessage = ErrNoTypes]
        ELSE IF ExceedsAlphabet(o, len, built.allCharsArray)
             THEN [built EXCEPT !.errorMessage = ErrLength]
             ELSE BatchLoop([ClearPasswords(built) EXCEPT !.generatedPasswords = {},
                                                          !.attempts = 0])

-----------------------------------------------------------------------------
(* Actions of the click handler. requests: the (options, length) pairs the
   exploration clicks with; cap: the attempts it follows. *)

Click(requests, maxClicks) ==
    /\ pc = "idle"
    /\ clicks < maxClicks
    /\ \E r \in requests : Install(ClickStep(Cur, r.options, r.length))
    /\ UNCHANGED samplerVars

Seed(cap) ==
    /\ pc = "seed"
    /\ attempts <= cap
    /\ LET available == AvailableSetArray(Cur)
       IN  IF Len(available) = 0
           THEN Install(Throw(Cur, ErrInclude))
           ELSE \E r \in getRandomInt(Len(available)) :
                    Install(SeedStep(Cur, available[r + 1]))
    /\ UNCHANGED samplerVars

Fill ==
    /\ pc = "fill"
    /\ \E r \in getRandomInt(Len(availableChars)) :
           Install(FillStep(Cur, availableChars[r + 1]))
    /\ UNCHANGED samplerVars

Shuffle ==
    /\ pc = "shuffle"
    /\ \E j \in ShuffleDraws(Cur) : Install(ShuffleStep(Cur, j))
    /\ UNCHANGED samplerVars

\* script.js:262-264 alone, for the request in progress: the entropy and the
\* strength every password of this request is displayed with
Evaluate ==
    /\ pc = "seed"
    /\ attempts = 1
    /\ setIndex = 1
    /\ entropy' = calculateEntropy(length, Len(allCharsArray))
    /\ strengthInfo' = getPasswordStrength(entropy')
    /\ UNCHANGED <<pc, clicks, options, length, characterSets, allCharsArray, passwords,
                   generatedPasswords, attempts, passwordArray, usedChars, setIndex,
                   availableChars, i, errorMessage, indicators, sampled, samplerVars>>

-----------------------------------------------------------------------------
(* getRandomInt step by step *)

\* one pass of the do-while: the draw and the test
SamplerDraw ==
    /\ spc \in {"draw", "redraw"}
    /\ \E raw \in 0..maxUint32 :
           /\ randomValue' = raw
           /\ spc' = IF Accepted(raw, limit(max)) THEN "return" ELSE "redraw"
    /\ UNCHANGED <<max, handlerVars>>

SamplerReturn ==
    /\ spc = "return"
    /\ spc' = "returned"
    /\ UNCHANGED <<max, randomValue, handlerVars>>

\* the value of `return randomValue % max`
returned == Rem(randomValue, max)

-----------------------------------------------------------------------------
(* Requests *)

OptionRecords ==
    [includeNumbers : BOOLEAN, includeLowercase : BOOLEAN, includeUppercase : BOOLEAN,
     includeSymbols : BOOLEAN, noSimilar : BOOLEAN, noDuplicate : BOOLEAN,
     noSequential : BOOLEAN]

NumClasses(o) == Len(buildCharacterSets(o))

AlphabetSize(o) == Len(Join(buildCharacterSets(o)))

\* whether the handler returns at one of its two prechecks
PrecheckFails(o, len) ==
    NoTypeSelected(o) \/ (o.noDuplicate /\ len > AlphabetSize(o))

OnlyNumbers(o) ==
    o.includeNumbers /\ ~o.includeLowercase /\ ~o.includeUppercase /\ ~o.includeSymbols

AllRequests == [options : OptionRecords, length : 1..maxLength]

\* every request up to maxLength that a precheck refuses, the short requests over
\* few classes, and the somewhat longer ones over the digits
Requests ==
    {r \in AllRequests :
        \/ PrecheckFails(r.options, r.length)
        \/ NumClasses(r.options) <= MaxClasses /\ r.length <= MaxLen
        \/ OnlyNumbers(r.options) /\ r.length <= MaxDigitsLen}

\* the requests whose fill loop has to use all but one character of the alphabet:
\* the digits without the similar ones, no duplicates
FillRequests ==
    {r \in AllRequests :
        /\ OnlyNumbers(r.options)
        /\ r.options.noSimilar
        /\ r.options.noDuplicate
        /\ r.length = FillLen}

\* the requests with the fewest possible passwords: one character out of '23456789'
BatchRequests ==
    {r \in AllRequests :
        /\ OnlyNumbers(r.options)
        /\ r.options.noSimilar
        /\ ~r.options.noDuplicate
        /\ ~r.options.noSequential
        /\ r.length = 1}

-----------------------------------------------------------------------------
(* Specifications *)

InitHandler ==
    /\ pc = "idle"
    /\ clicks = 0
    /\ options = [includeNumbers |-> FALSE, includeLowercase |-> FALSE,
                  includeUppercase |-> FALSE, includeSymbols |-> FALSE,
                  noSimilar |-> FALSE, noDuplicate |-> FALSE, noSequential |-> FALSE]
    /\ length = 0
    /\ characterSets = <<>>
    /\ allCharsArray = <<>>
    /\ passwords = EmptyBag
    /\ generatedPasswords = {}
    /\ attempts = 0
    /\ passwordArray = <<>>
    /\ usedChars = {}
    /\ setIndex = 0
    /\ availableChars = <<>>
    /\ i = 0
    /\ errorMessage = ""
    /\ entropy = 0
    /\ strengthInfo = ""
    /\ indicators = NoIndicators
    /\ sampled = FALSE

InitSampler ==
    /\ spc = "draw"
    /\ max = 1
    /\ randomValue = 0

Init == InitHandler /\ InitSampler

\* one click on the freshly loaded page, its batch followed for AttemptCap attempts
Next ==
    \/ Click(Requests, 1)
    \/ Seed(AttemptCap)
    \/ Fill
    \/ Shuffle

Spec == Init /\ [][Next]_vars

\* one click with a request that exhausts its alphabet, followed up to the shuffle
NextFill ==
    \/ Click(FillRequests, 1)
    \/ Seed(AttemptCap)
    \/ Fill

SpecFill == Init /\ [][NextFill]_vars

\* one click, its batch followed to the end; an attempt at a one-character
\* password is over with its seeding
NextBatch ==
    \/ Click(BatchRequests, 1)
    \/ Seed(maxAttempts)

SpecBatch == Init /\ [][NextBatch]_vars

\* getRandomInt alone, called with any bound the word width can hold
InitSamplerAlone ==
    /\ InitHandler
    /\ spc = "draw"
    /\ max \in 1..maxUint32
    /\ randomValue = 0

NextSampler == SamplerDraw \/ SamplerReturn

SpecSampler == InitSamplerAlone /\ [][NextSampler]_vars

\* nothing ticked
NoOptions ==
    [includeNumbers |-> FALSE, includeLowercase |-> FALSE, includeUppercase |-> FALSE,
     includeSymbols |-> FALSE, noSimilar |-> FALSE, noDuplicate |-> FALSE,
     noSequential |-> FALSE]

\* the requests of a session: the one of BatchRequests (one character out of
\* '23456789'), and a failing one of each kind: no class at all, 60 different digits
SessionRequests ==
    {[options |-> [NoOptions EXCEPT !.includeNumbers = TRUE, !.noSimilar = TRUE],
      length |-> 1],
     [options |-> NoOptions, length |-> maxLength],
     [options |-> [NoOptions EXCEPT !.includeNumbers = TRUE, !.noDuplicate = TRUE],
      length |-> maxLength]}

\* a session: MaxClicks requests one after the other, the batch of the passing
\* ones followed whole
NextSession ==
    \/ Click(SessionRequests, MaxClicks)
    \/ Seed(maxAttempts)

SpecSession == Init /\ [][NextSession]_vars

\* every request is evaluated; the batch is followed, whole, for the
\* one-character requests of BatchRequests
SeedBatch ==
    /\ [options |-> options, length |-> length] \in BatchRequests
    /\ Seed(maxAttempts)

NextStrength ==
    \/ Click(AllRequests, 1)
    \/ Evaluate
    \/ SeedBatch

SpecStrength == Init /\ [][NextStrength]_vars

\* buildCharacterSets alone: one click with any options and any length
NextBuild == Click(AllRequests, 1)

SpecBuild == Init /\ [][NextBuild]_vars

\* getRandomInt alone, the bound 0 included
InitSamplerAny ==
    /\ InitHandler
    /\ spc = "draw"
    /\ max \in 0..maxUint32
    /\ randomValue = 0

SpecSamplerAny == InitSamplerAny /\ [][NextSampler]_vars

-----------------------------------------------------------------------------
(* Properties *)

\* two neighbours of pw whose code points differ by exactly 1
Sequential(pw) == \E k \in 1..(Len(pw) - 1) : Abs(pw[k + 1] - pw[k]) = 1

AllDistinct(pw) == \A a, b \in DOMAIN pw : a # b => pw[a] # pw[b]

\* the union of the base alphabets the flags of o select
SelectedAlphabet(o) ==
    (IF o.includeNumbers THEN Range(numbers) ELSE {})
    \cup (IF o.includeLowercase THEN Range(lowercase) ELSE {})
    \cup (IF o.includeUppercase THEN Range(uppercase) ELSE {})
    \cup (IF o.includeSymbols THEN Range(symbols) ELSE {})

\* some character fillPassword can draw now gets through its tests
FillCanAdvance ==
    \E r \in getRandomInt(Len(availableChars)) : Fits(Cur, availableChars[r + 1])

StructuralErrors == {ErrInclude, ErrRanOut}

\* C1: with noSequential set, no accepted password (the string after the shuffle)
\* has two adjacent characters whose code points differ by exactly 1. Stated for
\* the requests at least as long as the number of selected classes, whose
\* passwords have the requested length.
C1_NoSequentialInAccepted ==
    (options.noSequential /\ length >= NumClasses(options)) =>
        \A pw \in generatedPasswords : ~Sequential(pw)

\* C2: every assembly attempt completes: the fill loop never stands where none of
\* the characters it can draw is ever accepted.
C2_FillNeverStuck == pc = "fill" => FillCanAdvance

\* C3: with noDuplicate set, the characters of every accepted password are
\* pairwise distinct.
C3_NoDuplicatesInAccepted ==
    options.noDuplicate => \A pw \in generatedPasswords : AllDistinct(pw)

\* C3 witness: a password of a no-duplicates request whose last two characters
\* were placed by fillPassword
C3_Witness ==
    /\ options.noDuplicate
    /\ OnlyNumbers(options)
    /\ length = 3
    /\ generatedPasswords # {}

\* C4: every accepted password holds a character of each selected class, also
\* after the shuffle.
C4_EveryClassRepresented ==
    \A pw \in generatedPasswords :
        /\ options.includeNumbers => Range(pw) \cap Range(numbers) # {}
        /\ options.includeLowercase => Range(pw) \cap Range(lowercase) # {}
        /\ options.includeUppercase => Range(pw) \cap Range(uppercase) # {}
        /\ options.includeSymbols => Range(pw) \cap Range(symbols) # {}

\* C4 witness: an accepted, shuffled password of a request with two classes
C4_Witness ==
    /\ options.includeLowercase
    /\ options.includeSymbols
    /\ length = 2
    /\ \E pw \in generatedPasswords : pw[1] \in Range(symbols)

\* C5 as stated: without noDuplicate, every accepted password has exactly the
\* requested length.
C5_LengthExactlyRequested ==
    ~options.noDuplicate => \A pw \in generatedPasswords : Len(pw) = length

\* C5 amended: without noDuplicate no attempt raises an error or gets stuck, and
\* every accepted password has the requested length, or one character per
\* selected class where the requested length is smaller than their number.
C5_LengthWithoutNoDuplicate ==
    ~options.noDuplicate =>
        /\ errorMessage \notin StructuralErrors
        /\ pc = "fill" => FillCanAdvance
        /\ \A pw \in generatedPasswords :
               Len(pw) = IF length >= NumClasses(options)
                         THEN length
                         ELSE NumClasses(options)

\* C5 witness: an accepted password of the requested length, part of it filled
C5_Witness ==
    /\ ~options.noDuplicate
    /\ NumClasses(options) = 1
    /\ length = 2
    /\ \E pw \in generatedPasswords : Len(pw) = 2

\* C6: every character of an accepted password is of a selected base alphabet, and
\* under noSimilar none is one of i, l, 1, L, o, 0, O.
C6_CharactersFromSelectedAlphabets ==
    \A pw \in generatedPasswords :
        /\ Range(pw) \subseteq SelectedAlphabet(options)
        /\ options.noSimilar => Range(pw) \cap {105, 108, 49, 76, 111, 48, 79} = {}

\* C6 witness: an accepted password over letters and digits with noSimilar set
C6_Witness ==
    /\ options.noSimilar
    /\ options.includeNumbers
    /\ options.includeUppercase
    /\ \E pw \in generatedPasswords : Len(pw) = 2

\* the request read by the last click asks for more distinct characters than the
\* alphabet holds
LengthExceedsAlphabet ==
    /\ clicks > 0
    /\ ~NoTypeSelected(options)
    /\ options.noDuplicate
    /\ length > Cardinality(SelectedAlphabet(options)
                            \ (IF options.noSimilar THEN similarChars ELSE {}))

\* C7: a no-duplicates request longer than the alphabet fails at once with the
\* length error: no call of the sampler, no attempt, no password.
C7_LengthPrecheckFailsFirst ==
    LengthExceedsAlphabet =>
        /\ pc = "idle"
        /\ errorMessage = ErrLength
        /\ ~sampled
        /\ attempts = 0
        /\ passwordArray = <<>>
        /\ generatedPasswords = {}
        /\ passwords = EmptyBag

\* C7 witness: the digits alone, length 15, no duplicates
C7_Witness ==
    /\ OnlyNumbers(options)
    /\ ~options.noSimilar
    /\ options.noDuplicate
    /\ length = 15
    /\ errorMessage = ErrLength

\* what the batch loop keeps true
BatchInvariant ==
    /\ BagToSet(passwords) = generatedPasswords
    /\ \A pw \in BagToSet(passwords) : CopiesIn(pw, passwords) = 1
    /\ Cardinality(generatedPasswords) <= count
    /\ Cardinality(generatedPasswords) <= attempts
    /\ attempts <= maxAttempts
    /\ pc # "idle" =>
           /\ Cardinality(generatedPasswords) < count
           /\ Cardinality(generatedPasswords) < attempts
    /\ (pc = "idle" /\ clicks > 0) =>
           \/ Cardinality(generatedPasswords) = count
           \/ attempts = maxAttempts

\* a step that ends an attempt: the next one starts or the loop is left
AttemptEnds == pc # "idle" /\ (attempts' = attempts + 1 \/ pc' = "idle")

\* the attempt ended with a new password, or with one accepted before: then only
\* the attempt is spent, and nothing but the loop's own end is reported
AttemptOutcome ==
    \/ \E pw \in generatedPasswords' \ generatedPasswords :
           /\ generatedPasswords' = generatedPasswords \cup {pw}
           /\ passwords' = passwords (+) SetToBag({pw})
    \/ /\ generatedPasswords' = generatedPasswords
       /\ passwords' = passwords
       /\ IF attempts < maxAttempts
          THEN attempts' = attempts + 1 /\ pc' = "seed" /\ errorMessage' = ""
          ELSE attempts' = attempts /\ pc' = "idle" /\ errorMessage' = ErrNotEnough

\* C8: in the batch loop the accepted passwords are pairwise distinct, at most 5
\* and at most the attempts made, attempts is at most 1000; a candidate accepted
\* before spends its attempt, adds nothing and raises no error; the loop stops
\* exactly when 5 passwords are accepted or 1000 attempts are made.
C8_BatchLoop == []BatchInvariant /\ [][AttemptEnds => AttemptOutcome]_vars

\* C8 witness: the third attempt is under way and only one password is accepted:
\* the second attempt produced the first one's password again
C8_Witness ==
    /\ pc = "seed"
    /\ attempts = 3
    /\ Cardinality(generatedPasswords) = 1

\* C9: the shortfall message is reported exactly when the 1000 attempts are used up
\* with fewer than 5 passwords accepted and no other error; the passwords accepted
\* stay displayed, and there are between 1 and 4 of them.
C9_PartialYield ==
    /\ errorMessage = ErrNotEnough <=>
           /\ pc = "idle"
           /\ clicks > 0
           /\ attempts = maxAttempts
           /\ Cardinality(generatedPasswords) < count
           /\ errorMessage \notin StructuralErrors \cup {ErrNoTypes, ErrLength}
    /\ errorMessage = ErrNotEnough =>
           /\ BagToSet(passwords) = generatedPasswords
           /\ BagCardinality(passwords) \in 1..(count - 1)

\* C9 witness: the batch ended short, four passwords displayed
C9_Witness ==
    /\ errorMessage = ErrNotEnough
    /\ BagCardinality(passwords) = 4

\* limit as the specification writes it: floor(UINT32_MAX / bound) * bound
FloorLimit(b) == (maxUint32 \div b) * b

\* C10: getRandomInt(b) returns only values in 0..b-1; a draw is kept iff it is
\* below limit = floor(UINT32_MAX / b) * b; every value in 0..b-1 comes from the
\* same number, limit / b, of kept draws.
C10_SamplerUnbiased ==
    /\ limit(max) = FloorLimit(max)
    /\ getRandomInt(max) = 0..(max - 1)
    /\ spc = "redraw" => randomValue >= FloorLimit(max)
    /\ spc \in {"return", "returned"} =>
           /\ randomValue < FloorLimit(max)
           /\ returned \in 0..(max - 1)
           /\ Cardinality({raw \in 0..maxUint32 :
                              Accepted(raw, limit(max)) /\ raw % max = returned})
                  = FloorLimit(max) \div max

\* C10 witness: getRandomInt(91) has returned 90, the last index of the full alphabet
C10_Witness ==
    /\ spc = "returned"
    /\ max = 91
    /\ returned = 90

\* C11: getRandomInt called with the bound 0 fails: it never comes to return a
\* value.
C11_ZeroBoundFails == max = 0 => spc \notin {"return", "returned"}

\* the selection flags in the order of the classes, and their base alphabets
Flags(o) == <<o.includeNumbers, o.includeLowercase, o.includeUppercase, o.includeSymbols>>

BaseAlphabets == <<numbers, lowercase, uppercase, symbols>>

\* i, l, 1, L, o, 0, O
Ambiguous == {105, 108, 49, 76, 111, 48, 79}

\* where a character stands in a string without repeated characters
Position(set, c) == CHOOSE k \in DOMAIN set : set[k] = c

\* set is what is left of base, in base's order, once the characters of removed are gone
IsBaseWithout(set, base, removed) ==
    /\ Range(set) = Range(base) \ removed
    /\ Len(set) = Cardinality(Range(set))
    /\ \A a, b \in DOMAIN set : a < b => Position(base, set[a]) < Position(base, set[b])

\* C12: buildCharacterSets returns one class per selected flag, in the order
\* numbers, lowercase, uppercase, symbols; each class is its base alphabet (of
\* 10, 26, 26 and 29 characters), without exactly i, l, 1, L, o, 0, O when
\* noSimilar is set; all four flags with noSimilar give 84 characters; no class
\* is empty.
C12_ClassesAsSelected ==
    (clicks > 0 /\ ~NoTypeSelected(options)) =>
        /\ <<Len(numbers), Len(lowercase), Len(uppercase), Len(symbols)>> = <<10, 26, 26, 29>>
        /\ Len(characterSets) = Cardinality({f \in 1..4 : Flags(options)[f]})
        /\ \A f \in 1..4 :
               Flags(options)[f] =>
                   IsBaseWithout(characterSets[Cardinality({g \in 1..f : Flags(options)[g]})],
                                 BaseAlphabets[f],
                                 IF options.noSimilar THEN Ambiguous ELSE {})
        /\ \A k \in DOMAIN characterSets : Len(characterSets[k]) > 0
        /\ (options.noSimilar /\ \A f \in 1..4 : Flags(options)[f]) =>
               Len(allCharsArray) = 84

\* C12 witness: all four classes built with noSimilar: 8, 23, 24 and 29 characters
C12_Witness ==
    /\ clicks = 1
    /\ options.noSimilar
    /\ Len(characterSets) = 4
    /\ <<Len(characterSets[1]), Len(characterSets[2]), Len(characterSets[3]),
         Len(characterSets[4])>> = <<8, 23, 24, 29>>

\* the tiers, each with the least entropy (in hundredths of a bit) it holds
Tiers == <<[label |-> "Weak", from |-> 0],
           [label |-> "Fair", from |-> 5000],
           [label |-> "Good", from |-> 7000],
           [label |-> "Strong", from |-> 9000],
           [label |-> "Very Strong", from |-> 11000],
           [label |-> "Extremely Strong", from |-> 13000],
           [label |-> "Unbreakable", from |-> 15000]>>

\* the tiers whose interval holds e
TiersOf(e) ==
    {k \in DOMAIN Tiers :
        /\ Tiers[k].from <= e
        /\ k < Len(Tiers) => e < Tiers[k + 1].from}

Rank(label) == CHOOSE k \in DOMAIN Tiers : Tiers[k].label = label

\* C13: getPasswordStrength maps an entropy to the one tier whose interval
\* holds it (Weak below 50, Fair from 50, Good from 70, Strong from 90, Very
\* Strong from 110, Extremely Strong from 130, Unbreakable from 150); the tier
\* does not go down when the entropy goes up; every password displayed for a
\* request carries the tier of the entropy of the requested length over the
\* full alphabet.
C13_StrengthTiers ==
    /\ strengthInfo # "" =>
           /\ entropy = calculateEntropy(length, AlphabetSize(options))
           /\ TiersOf(entropy) = {Rank(strengthInfo)}
           /\ Rank(getPasswordStrength(entropy)) <= Rank(getPasswordStrength(entropy + 1))
           /\ \A k \in DOMAIN Tiers :
                  Tiers[k].from > entropy =>
                      Rank(getPasswordStrength(Tiers[k].from)) >= Rank(strengthInfo)
    /\ DOMAIN indicators = BagToSet(passwords)
    /\ \A p \in DOMAIN indicators :
           /\ indicators[p].entropy = calculateEntropy(length, AlphabetSize(options))
           /\ TiersOf(indicators[p].entropy) = {Rank(indicators[p].label)}

\* C13 witness: 10 characters over the 32 of numbers and uppercase without the
\* similar ones: 50.00 bits, the first entropy of Fair
C13_Witness ==
    /\ entropy = 5000
    /\ strengthInfo = "Fair"
    /\ length = 10

\* the characters of a string with their numbers of occurrences
Items(pw) == [c \in Range(pw) |-> Cardinality({k \in DOMAIN pw : pw[k] = c})]

\* the rearrangements of a string, one per permutation of its positions
Rearrangements(pw) ==
    {[k \in DOMAIN pw |-> pw[f[k]]] :
        f \in {g \in [DOMAIN pw -> DOMAIN pw] : \A a, b \in DOMAIN pw : a # b => g[a] # g[b]}}

\* the passwords the rest of the shuffle of s ends with, each counted once per
\* sequence of draws that ends with it (s is in the first attempt of its batch)
RECURSIVE ShuffleRuns(_), ShuffleRunsOver(_, _)
ShuffleRuns(s) ==
    IF s.pc = "shuffle" /\ s.attempts = 1
    THEN ShuffleRunsOver(s, ShuffleDraws(s))
    ELSE SetToBag(s.generatedPasswords)

ShuffleRunsOver(s, draws) ==
    IF draws = {}
    THEN EmptyBag
    ELSE LET j == CHOOSE d \in draws : TRUE
         IN  ShuffleRuns(ShuffleStep(s, j)) (+) ShuffleRunsOver(s, draws \ {j})

\* C15: the shuffle is a Fisher-Yates permutation: i goes from n-1 down to 1 and
\* j is drawn from 0..i; whatever is drawn, the shuffled password has the length
\* and the characters, with their multiplicities, of the array before; the last
\* iteration leaves the array as it is or swaps its first two characters; and
\* from the loop's entry every permutation of the n positions is the result of
\* exactly one sequence of draws.
C15_FisherYates ==
    (pc = "shuffle" /\ attempts = 1) =>
        /\ i \in 1..(Len(passwordArray) - 1)
        /\ ShuffleDraws(Cur) = 0..i
        /\ \A out \in BagToSet(ShuffleRuns(Cur)) :
               Len(out) = Len(passwordArray) /\ Items(out) = Items(passwordArray)
        /\ i = 1 =>
               BagToSet(ShuffleRuns(Cur)) = {passwordArray, Swap(passwordArray, 1, 2)}
        /\ (i = Len(passwordArray) - 1 /\ AllDistinct(passwordArray)) =>
               ShuffleRuns(Cur) = SetToBag(Rearrangements(passwordArray))

\* C15 witness: the shuffle of three different characters at its entry
C15_Witness ==
    /\ pc = "shuffle"
    /\ attempts = 1
    /\ Len(passwordArray) = 3
    /\ i = 2
    /\ AllDistinct(passwordArray)
    /\ BagCardinality(ShuffleRuns(Cur)) = 6

\* C16: during filling with noSequential, a drawn character is rejected and
\* redrawn iff its code point differs by exactly 1 from the character placed
\* just before it; so, before the shuffle, every character placed by the fill
\* is not adjacent in code point to its predecessor (the seeded characters are
\* not tested).
C16_RejectedIffAdjacent ==
    (pc = "fill" /\ options.noSequential) =>
        /\ \A char \in Range(availableChars) :
               ~Fits(Cur, char) <=> Abs(char - passwordArray[Len(passwordArray)]) = 1
        /\ \A k \in (NumClasses(options) + 1)..Len(passwordArray) :
               Abs(passwordArray[k] - passwordArray[k - 1]) # 1

\* C17: with the fixed alphabets neither structural error can happen: the class
\* seeding is at always has an available character, the array the fill draws
\* from is never empty, and the only messages a request ends with are those of
\* the two prechecks and of the shortfall.
C17_NoStructuralError ==
    /\ errorMessage \notin StructuralErrors
    /\ errorMessage \in {"", ErrNoTypes, ErrLength, ErrNotEnough}
    /\ pc = "seed" => AvailableSetArray(Cur) # <<>>
    /\ pc = "fill" => availableChars # <<>>

\* C17 witness: noDuplicate over '23456789', two characters placed, the fill
\* drawing the third among the seven the seeding left
C17_Witness ==
    /\ pc = "fill"
    /\ options.noDuplicate
    /\ options.noSimilar
    /\ Len(passwordArray) = 2
    /\ Len(availableChars) = 7
    /\ errorMessage = ""

\* the bound of the call of getRandomInt the handler is about to make
Bound ==
    CASE pc = "seed" -> Len(AvailableSetArray(Cur))
      [] pc = "fill" -> Len(availableChars)
      [] pc = "shuffle" -> i + 1
      [] OTHER -> 1

\* C19: getRandomInt is only called with a bound of at least 1: the size of a
\* class with an available character, the size of the non-empty array the fill
\* draws from, or i + 1 >= 2 in the shuffle; the result of the bound 0 (NaN) is
\* never drawn.
C19_BoundAtLeastOne ==
    /\ Bound >= 1
    /\ pc = "shuffle" => Bound >= 2
    /\ NaN \notin getRandomInt(Bound)
    /\ getRandomInt(Bound) = 0..(Bound - 1)

\* C19 witness: the last iteration of a shuffle, called with the bound 2
C19_Witness ==
    /\ pc = "shuffle"
    /\ sampled
    /\ i = 1
    /\ Bound = 2

\* C18: a request that fails a precheck leaves the displayed passwords (and
\* their indicators) as they were and displays its error; a request that passes
\* both prechecks has emptied the list when its first attempt starts.
C18_StaleResultsKept ==
    [][clicks' = clicks + 1 =>
          IF PrecheckFails(options', length')
          THEN /\ passwords' = passwords
               /\ indicators' = indicators
               /\ errorMessage' \in {ErrNoTypes, ErrLength}
               /\ pc' = "idle"
          ELSE /\ passwords' = EmptyBag
               /\ indicators' = NoIndicators
               /\ errorMessage' = ""
               /\ attempts' = 1
               /\ pc' = "seed"]_vars

\* C18 witness: the second request fails the length precheck; the five
\* passwords of the first one are still displayed next to its error
C18_Witness ==
    /\ clicks = 2
    /\ errorMessage = ErrLength
    /\ BagCardinality(passwords) = 5

=============================================================================
